---- MODULE Spec2Model ----
(***************************************************************************)
(* pubsubstar v1.0.2: subscribe / unsubscribe / publish over a per-context *)
(* registry (`this._pubsub`), with topic specifications compiled to a      *)
(* RegExp by forEachTopic.                                                 *)
(*                                                                         *)
(* A JavaScript string is a sequence of one-character strings, so that     *)
(* String.prototype.replace, the RegExp constructor and RegExp.test are    *)
(* computed character by character.  A JavaScript value is a record with a *)
(* `type` field.                                                           *)
(***************************************************************************)
EXTENDS Integers, Sequences, FiniteSets, TLC

VARIABLES
    pubsub,     \* context -> its own `_pubsub` property (defined or not, and the hash)
    lastIndex,  \* RegExp object held by the caller -> its `lastIndex`
    last        \* the last call made: its arguments, what it invoked and how it ended

vars == <<pubsub, lastIndex, last>>

-----------------------------------------------------------------------------
(* Bounds of the model.                                                    *)

\* topic keys one registry holds at a time (specification SpecOrder)
MaxKeys == 3

\* length of the topic keys drawn by specification SpecMatch
MaxKeyLen == 2

\* length of the string specifications drawn by specification SpecMatch
MaxSpecLen == 3

\* number of tokens (a letter, or an escaped asterisk) of the escaped
\* specifications drawn by specification SpecMatch, and length of their keys
MaxTokens == 3

-----------------------------------------------------------------------------
(* JavaScript values.                                                      *)

\* Body(value), with `value` computed once
With(value, Body(_)) == CHOOSE out \in {Body(v) : v \in {value}} : TRUE

Undefined == [type |-> "undefined"]

Str(s) == [type |-> "string", chars |-> s]

Num(n) == [type |-> "number", num |-> n]

Fn(name) == [type |-> "function", name |-> name]

Obj(name) == [type |-> "object", name |-> name]

Re(id) == [type |-> "regexp", id |-> id]

PromiseOf(v) == [type |-> "promise", settles |-> v]

\* ToBoolean
Truthy(v) ==
    CASE v.type = "undefined" -> FALSE
      [] v.type = "number" -> v.num # 0
      [] v.type = "string" -> v.chars # <<>>
      [] OTHER -> TRUE

-----------------------------------------------------------------------------
(* Strings.                                                                *)

BACKSLASH == "\\"

STAR == "*"

NEWLINE == "\n"

\* all strings over `alphabet` of length at most n
RECURSIVE StringsUpTo(_, _)
StringsUpTo(alphabet, n) ==
    IF n = 0 THEN {<<>>}
    ELSE LET shorter == StringsUpTo(alphabet, n - 1)
         IN  shorter \cup {Append(s, c) : s \in shorter, c \in alphabet}

RECURSIVE Concat(_)
Concat(seqs) ==
    IF seqs = <<>> THEN <<>> ELSE Head(seqs) \o Concat(Tail(seqs))

Digits == {"0", "1", "2", "3", "4", "5", "6", "7", "8", "9"}

DigitValue(c) ==
    CASE c = "0" -> 0 [] c = "1" -> 1 [] c = "2" -> 2 [] c = "3" -> 3 [] c = "4" -> 4
      [] c = "5" -> 5 [] c = "6" -> 6 [] c = "7" -> 7 [] c = "8" -> 8 [] c = "9" -> 9

\* the first position at which two strings of one length differ, or 0
FirstDifference(a, b) ==
    IF \E i \in 1..Len(a) : a[i] # b[i]
    THEN CHOOSE i \in 1..Len(a) : a[i] # b[i] /\ \A j \in 1..(i - 1) : a[j] = b[j]
    ELSE 0

\* a < b, for decimal numerals without leading zeros
NumericLess(a, b) ==
    \/ Len(a) < Len(b)
    \/ /\ Len(a) = Len(b)
       /\ FirstDifference(a, b) # 0
       /\ DigitValue(a[FirstDifference(a, b)]) < DigitValue(b[FirstDifference(a, b)])

-----------------------------------------------------------------------------
(* The RegExp engine, for the pattern syntax the model's inputs can reach: *)
(* ^ $ . \c (identity escape) * + and literal characters.                  *)

SyntaxError == [error |-> TRUE, terms |-> <<>>]

\* LineTerminator: what `.` does not match
LineTerminators == {"\n", "\r"}

Assertion(kind) == [kind |-> kind, ch |-> "", quant |-> "one"]

Atom(kind, c) == [kind |-> kind, ch |-> c, quant |-> "one"]

IsQuantifiable(term) == term.kind \in {"lit", "any"} /\ term.quant = "one"

\* new RegExp(source): the pattern as a sequence of terms, or SyntaxError
RECURSIVE ParseFrom(_, _, _)
ParseFrom(source, i, terms) ==
    IF i > Len(source) THEN [error |-> FALSE, terms |-> terms]
    ELSE LET c == source[i] IN
         CASE c = "^" -> ParseFrom(source, i + 1, Append(terms, Assertion("bol")))
           [] c = "$" -> ParseFrom(source, i + 1, Append(terms, Assertion("eol")))
           [] c = "." -> ParseFrom(source, i + 1, Append(terms, Atom("any", "")))
           [] c = BACKSLASH ->
                IF i = Len(source) THEN SyntaxError   \* "\ at end of pattern"
                ELSE ParseFrom(source, i + 2, Append(terms, Atom("lit", source[i + 1])))
           [] c \in {"*", "+"} ->
                IF terms # <<>> /\ IsQuantifiable(terms[Len(terms)])
                THEN ParseFrom(source, i + 1,
                               [terms EXCEPT ![Len(terms)].quant =
                                                 IF c = "*" THEN "star" ELSE "plus"])
                ELSE SyntaxError                      \* "Nothing to repeat"
           [] OTHER -> ParseFrom(source, i + 1, Append(terms, Atom("lit", c)))

ParsePattern(source) == ParseFrom(source, 1, <<>>)

AtomMatches(term, c) ==
    IF term.kind = "any" THEN c \notin LineTerminators ELSE c = term.ch

\* how many consecutive characters of s, from 0-based position pos, the atom matches
RECURSIVE RunLength(_, _, _)
RunLength(term, s, pos) ==
    IF pos < Len(s) /\ AtomMatches(term, s[pos + 1])
    THEN 1 + RunLength(term, s, pos + 1)
    ELSE 0

\* the backtracking matcher: the end position of the match of terms[ti..] that
\* starts at 0-based position pos of s, or -1; quantifiers are greedy
RECURSIVE MatchEnd(_, _, _, _), TryCount(_, _, _, _, _, _)
MatchEnd(terms, ti, s, pos) ==
    IF ti > Len(terms) THEN pos
    ELSE LET t == terms[ti] IN
         CASE t.kind = "bol" -> IF pos = 0 THEN MatchEnd(terms, ti + 1, s, pos) ELSE -1
           [] t.kind = "eol" -> IF pos = Len(s) THEN MatchEnd(terms, ti + 1, s, pos) ELSE -1
           [] t.quant = "one" ->
                IF pos < Len(s) /\ AtomMatches(t, s[pos + 1])
                THEN MatchEnd(terms, ti + 1, s, pos + 1)
                ELSE -1
           [] OTHER ->
                TryCount(terms, ti, s, pos, RunLength(t, s, pos),
                         IF t.quant = "plus" THEN 1 ELSE 0)

TryCount(terms, ti, s, pos, count, least) ==
    IF count < least THEN -1
    ELSE With(MatchEnd(terms, ti + 1, s, pos + count),
              LAMBDA end : IF end # -1 THEN end
                           ELSE TryCount(terms, ti, s, pos, count - 1, least))

\* the leftmost match starting at or after `from`: its end position, or -1
RECURSIVE SearchFrom(_, _, _)
SearchFrom(terms, s, from) ==
    IF from > Len(s) THEN -1
    ELSE With(MatchEnd(terms, 1, s, from),
              LAMBDA end : IF end # -1 THEN end ELSE SearchFrom(terms, s, from + 1))

\* RegExp.prototype.test on a RegExp whose lastIndex is li: the answer and the
\* RegExp's lastIndex afterwards (RegExpBuiltinExec; only a global RegExp reads and
\* writes lastIndex)
RegExpTest(regex, li, s) ==
    With(SearchFrom(ParsePattern(regex.source).terms, s, IF regex.global THEN li ELSE 0),
         LAMBDA end : [result    |-> end # -1,
                       lastIndex |-> IF ~regex.global THEN li
                                     ELSE IF end # -1 THEN end ELSE 0])

-----------------------------------------------------------------------------
(* forEachTopic's conversion of a string specification to a RegExp source. *)

\* the end of the run of `*` that starts at index i of s
RECURSIVE SkipStars(_, _)
SkipStars(s, i) ==
    IF i <= Len(s) /\ s[i] = STAR THEN SkipStars(s, i + 1) ELSE i

\* every run of `*` turned into `.*`, whatever precedes it
RECURSIVE ReplaceEveryStarRun(_, _)
ReplaceEveryStarRun(s, i) ==
    IF i > Len(s) THEN <<>>
    ELSE IF i < Len(s) /\ s[i + 1] = STAR
         THEN <<s[i], ".", "*">> \o ReplaceEveryStarRun(s, SkipStars(s, i + 1))
         ELSE <<s[i]>> \o ReplaceEveryStarRun(s, i + 1)

\* s.replace(/([^\\])\*+/g, '$1.*') from index i on: every character other than
\* a backslash that is followed by a run of `*` keeps itself and turns the run
\* into `.*`
RECURSIVE ReplaceStarRuns(_, _)
ReplaceStarRuns(s, i) ==
    IF i > Len(s) THEN <<>>
    ELSE IF s[i] # BACKSLASH /\ i < Len(s) /\ s[i + 1] = STAR
         THEN <<s[i], ".", "*">> \o ReplaceStarRuns(s, SkipStars(s, i + 1))
         ELSE <<s[i]>> \o ReplaceStarRuns(s, i + 1)

\* s.replace(/^\*/, '.*')
ReplaceLeadingStar(s) ==
    IF s # <<>> /\ s[1] = STAR THEN <<".", "*">> \o Tail(s) ELSE s

\* the source without the leading `^`
WildcardSourceOpenStart(chars) ==
    ReplaceLeadingStar(ReplaceStarRuns(chars, 1)) \o <<"$">>

\* '^' + topics.replace(/([^\\])\*+/g, '$1.*').replace(/^\*/, '.*') + '$'
WildcardSource(chars) ==
    <<"^">> \o ReplaceLeadingStar(ReplaceStarRuns(chars, 1)) \o <<"$">>

\* new RegExp(source): a RegExp without flags
NewRegExp(source) == [source |-> source, global |-> FALSE]

-----------------------------------------------------------------------------
(* The registry: the hash `_pubsub` of a context, as the sequence of its   *)
(* properties in creation order, each a topic key with its subscribers.    *)

Contexts == {"pubsubstar", "myObj", "child"}

NoObject == "null"

\* the prototype of each context: `child` is Object.create(myObj)
Proto(ctx) == IF ctx = "child" THEN "myObj" ELSE NoObject

\* a context without an own property `_pubsub`.  An own property has its
\* `enumerable` attribute and its value, the hash, named after the context that
\* created it; the properties of that hash are kept with its creator.
NoRegistry == [defined |-> FALSE, enumerable |-> FALSE, hash |-> NoObject, props |-> <<>>]

\* the creator of the hash that the lookup `this._pubsub` finds, on the context
\* or along its prototype chain, or NoObject
RECURSIVE Holder(_, _)
Holder(ps, ctx) ==
    IF ctx = NoObject THEN NoObject
    ELSE IF ps[ctx].defined THEN ps[ctx].hash
    ELSE Holder(ps, Proto(ctx))

Keys(props) == {props[i].topic : i \in 1..Len(props)}

KeyIndex(props, topic) == CHOOSE i \in 1..Len(props) : props[i].topic = topic

\* namespace[topic]
Lookup(props, topic) == props[KeyIndex(props, topic)].subscribers

\* Array.prototype.indexOf, 1-based; 0 when not found
IndexOf(list, x) ==
    IF \E i \in 1..Len(list) : list[i] = x
    THEN CHOOSE i \in 1..Len(list) : list[i] = x /\ \A j \in 1..(i - 1) : list[j] # x
    ELSE 0

\* Array.prototype.splice(index, 1)
RemoveAt(list, index) ==
    SubSeq(list, 1, index - 1) \o SubSeq(list, index + 1, Len(list))

\* 2^32 - 2, the largest array index
MaxArrayIndex == <<"4", "2", "9", "4", "9", "6", "7", "2", "9", "4">>

\* CanonicalNumericIndexString that is an array index: such keys are enumerated
\* first, in ascending numeric order
IsArrayIndex(key) ==
    /\ key # <<>>
    /\ \A i \in 1..Len(key) : key[i] \in Digits
    /\ (Len(key) = 1 \/ key[1] # "0")
    /\ ~NumericLess(MaxArrayIndex, key)

\* the array-index keys among `keys`, ascending
RECURSIVE Ascending(_)
Ascending(keys) ==
    IF keys = {} THEN <<>>
    ELSE LET least == CHOOSE k \in keys : \A other \in keys : ~NumericLess(other, k)
         IN  <<least>> \o Ascending(keys \ {least})

RECURSIVE CreationOrder(_, _)
CreationOrder(props, i) ==
    IF i > Len(props) THEN <<>>
    ELSE IF IsArrayIndex(props[i].topic) THEN CreationOrder(props, i + 1)
    ELSE <<props[i].topic>> \o CreationOrder(props, i + 1)

\* an enumeration in creation order whatever the keys are
ForInKeysAsCreated(props) == [i \in 1..Len(props) |-> props[i].topic]

\* for (var topic in namespace): the order in which the keys are enumerated
ForInKeys(props) ==
    Ascending({k \in Keys(props) : IsArrayIndex(k)}) \o CreationOrder(props, 1)

-----------------------------------------------------------------------------
(* subscribe.                                                              *)

\* a subscribe that pushes without looking the subscriber up
PushAlways(subscribers, subscriber) == Append(subscribers, subscriber)

\* if (subscriberNotFound) { subscribers.push(subscriber); }
PushIfNotFound(subscribers, subscriber) ==
    IF IndexOf(subscribers, subscriber) = 0
    THEN Append(subscribers, subscriber)
    ELSE subscribers

\* namespace[topic] || (namespace[topic] = [])
EnsureTopic(props, topic) ==
    IF topic \in Keys(props) THEN props
    ELSE Append(props, [topic |-> topic, subscribers |-> <<>>])

SetSubscribers(props, topic, list) ==
    [props EXCEPT ![KeyIndex(props, topic)].subscribers = list]

\* a registry defined as an enumerable property
DefineEnumerable(ps, ctx) ==
    IF Holder(ps, ctx) = NoObject
    THEN [ps EXCEPT ![ctx] = [defined |-> TRUE, enumerable |-> TRUE, hash |-> ctx,
                              props |-> <<>>]]
    ELSE ps

\* if (!this._pubsub) { Object.defineProperty(this, '_pubsub', ...) }
DefineIfMissing(ps, ctx) ==
    IF Holder(ps, ctx) = NoObject
    THEN [ps EXCEPT ![ctx] = [defined |-> TRUE, enumerable |-> FALSE, hash |-> ctx,
                              props |-> <<>>]]
    ELSE ps

\* Object.assign(target, source) as far as `_pubsub` goes: the enumerable own
\* properties of source are set on target, each to the value it has on source
AssignCall(ps, target, source) ==
    IF ps[source].defined /\ ps[source].enumerable
    THEN [ps EXCEPT ![target].defined = TRUE, ![target].enumerable = TRUE,
                    ![target].hash = ps[source].hash]
    ELSE ps

\* a subscribe that creates the registry before it looks at its arguments
SubscribeDefiningFirst(ps, ctx, topic, subscriber) ==
    LET created == DefineIfMissing(ps, ctx) IN
    IF topic.type # "string" \/ subscriber.type # "function"
    THEN [pubsub |-> created, outcome |-> "TypeError"]
    ELSE LET holder      == Holder(created, ctx)
             namespace   == EnsureTopic(created[holder].props, topic.chars)
             subscribers == PushIfNotFound(Lookup(namespace, topic.chars), subscriber)
         IN  [pubsub  |-> [created EXCEPT ![holder].props =
                               SetSubscribers(namespace, topic.chars, subscribers)],
              outcome |-> "return"]

\* subscribe.call(ctx, topic, subscriber) on the registries ps
SubscribeCall(ps, ctx, topic, subscriber) ==
    IF topic.type # "string" THEN [pubsub |-> ps, outcome |-> "TypeError"]
    ELSE IF subscriber.type # "function" THEN [pubsub |-> ps, outcome |-> "TypeError"]
    ELSE LET created     == DefineIfMissing(ps, ctx)
             holder      == Holder(created, ctx)
             namespace   == EnsureTopic(created[holder].props, topic.chars)
             subscribers == PushIfNotFound(Lookup(namespace, topic.chars), subscriber)
         IN  [pubsub  |-> [created EXCEPT ![holder].props =
                               SetSubscribers(namespace, topic.chars, subscribers)],
              outcome |-> "return"]

-----------------------------------------------------------------------------
(* The subscribers: what each function does when it is called.             *)

Throws(fn) == fn.name = "thrower"

\* the test suite's subscribers: a spy returns undefined, two functions return
\* 17 and 53, an async subscriber returns a promise that resolves to 17
ReturnValue(fn, message) ==
    CASE fn.name = "seventeen"  -> Num(17)
      [] fn.name = "fiftyThree" -> Num(53)
      [] fn.name = "spy1"       -> PromiseOf(Num(17))
      [] fn.name = "echo"       -> message
      [] OTHER                  -> Undefined

-----------------------------------------------------------------------------
(* forEachTopic with the callbacks of unsubscribe and publish.  The loop   *)
(* carries: the hash, the RegExp's lastIndex, the keys handed to the       *)
(* callback, the calls made to subscribers, publish's `results` array and  *)
(* how the call has gone so far.                                           *)

\* subscribers[i].call(this, message): what the subscriber observes
CallOf(fn, ctx, message) == [fn |-> fn, this |-> ctx, message |-> message]

\* what a subscriber does to the registry while it runs.  `once` is
\*   function once(topic) { if (typeof topic === 'string') this.unsubscribe(topic, once); }
\* the other subscribers leave the registry alone.  An error of the inner call
\* leaves the subscriber as it left unsubscribe.
RECURSIVE ForEachTopic(_, _, _, _, _, _, _)
RunBody(fn, acc, ctx, message) ==
    IF fn.name = "once" /\ message.type = "string"
    THEN With(ForEachTopic(TRUE, acc.props, <<>>, ctx, message, "unsubscribe", fn),
              LAMBDA inner : [acc EXCEPT !.props = inner.props,
                                         !.outcome = inner.outcome])
    ELSE acc

\* a dispatch loop that catches what a subscriber throws and goes on
RECURSIVE InvokeFromCatching(_, _, _, _, _)
InvokeFromCatching(acc, ctx, topic, message, i) ==
    LET subscribers == Lookup(acc.props, topic) IN
    IF i > Len(subscribers) THEN acc
    ELSE LET fn     == subscribers[i]
             called == [acc EXCEPT !.calls = Append(@, CallOf(fn, ctx, message))]
         IN  IF Throws(fn)
             THEN InvokeFromCatching(called, ctx, topic, message, i + 1)
             ELSE InvokeFromCatching(
                      [called EXCEPT !.results = Append(@, ReturnValue(fn, message))],
                      ctx, topic, message, i + 1)

\* for (var i = 0; i < subscribers.length; ++i) { results.push(...) }, where
\* `subscribers` is the array namespace[topic] itself: the index and the length
\* are read on the array as the subscribers called so far have left it
RECURSIVE InvokeFrom(_, _, _, _, _)
InvokeFrom(acc, ctx, topic, message, i) ==
    LET subscribers == Lookup(acc.props, topic) IN
    IF i > Len(subscribers) THEN acc
    ELSE LET fn     == subscribers[i]
             called == [acc EXCEPT !.calls = Append(@, CallOf(fn, ctx, message))]
         IN  IF Throws(fn) THEN [called EXCEPT !.outcome = "thrown"]
             ELSE With(RunBody(fn, called, ctx, message),
                       LAMBDA ran :
                         IF ran.outcome # "return" THEN ran
                         ELSE InvokeFrom([ran EXCEPT !.results =
                                              Append(@, ReturnValue(fn, message))],
                                         ctx, topic, message, i + 1))

\* a dispatch loop that starts at the second subscriber
PublishTopicFromSecond(acc, ctx, topic, message) ==
    InvokeFrom(acc, ctx, topic, message, 2)

\* publish's callback
PublishTopic(acc, ctx, topic, message) ==
    InvokeFrom(acc, ctx, topic, message, 1)

\* a removal that empties the list and keeps the key
DeleteSubscribersOnly(props, topic) == SetSubscribers(props, topic, <<>>)

\* delete subscriptions[topic]
DeleteTopic(props, topic) ==
    SelectSeq(props, LAMBDA p : p.topic # topic)

\* a splice that removes the first element whichever subscriber was found
RemoveFirst(subscribers, subscriber) ==
    IF IndexOf(subscribers, subscriber) > 0 THEN RemoveAt(subscribers, 1) ELSE subscribers

\* subscribers.splice(subscriberIndex, 1) when the subscriber is found
RemoveSubscriber(subscribers, subscriber) ==
    LET subscriberIndex == IndexOf(subscribers, subscriber) IN
    IF subscriberIndex > 0 THEN RemoveAt(subscribers, subscriberIndex) ELSE subscribers

\* a callback that also deletes the key of a list it has emptied
UnsubscribeTopicPruning(acc, topic, subscriber) ==
    IF Truthy(subscriber)
    THEN LET rest == RemoveSubscriber(Lookup(acc.props, topic), subscriber) IN
         IF rest = <<>> THEN [acc EXCEPT !.props = DeleteTopic(@, topic)]
         ELSE [acc EXCEPT !.props = SetSubscribers(@, topic, rest)]
    ELSE [acc EXCEPT !.props = DeleteTopic(@, topic)]

\* unsubscribe's callback
UnsubscribeTopic(acc, topic, subscriber) ==
    IF Truthy(subscriber)
    THEN [acc EXCEPT !.props =
              SetSubscribers(@, topic, RemoveSubscriber(Lookup(@, topic), subscriber))]
    ELSE [acc EXCEPT !.props = DeleteTopic(@, topic)]

Callback(acc, ctx, topic, kind, arg) ==
    IF kind = "publish" THEN PublishTopic(acc, ctx, topic, arg)
    ELSE UnsubscribeTopic(acc, topic, arg)

\* for (var topic in namespace) { if (topics.test(topic) && namespace[topic]) fn(...) }
RECURSIVE TopicLoop(_, _, _, _, _, _, _)
TopicLoop(acc, ctx, regex, keys, i, kind, arg) ==
    IF i > Len(keys) \/ acc.outcome # "return" THEN acc
    ELSE LET topic == keys[i] IN
         IF topic \notin Keys(acc.props)
         THEN TopicLoop(acc, ctx, regex, keys, i + 1, kind, arg)
         ELSE With(RegExpTest(regex, acc.li, topic),
                   LAMBDA t :
                     IF t.result
                     THEN With(Callback([acc EXCEPT !.li = t.lastIndex,
                                                    !.selected = Append(@, topic)],
                                        ctx, topic, kind, arg),
                               LAMBDA called :
                                 TopicLoop(called, ctx, regex, keys, i + 1, kind, arg))
                     ELSE TopicLoop([acc EXCEPT !.li = t.lastIndex],
                                    ctx, regex, keys, i + 1, kind, arg))

\* the RegExp objects the caller holds and passes as `topics`
RegExpObjects ==
    [id \in {"/a.e/", "/^a.e$/", "/a.e/g"} |->
        CASE id = "/a.e/"   -> [source |-> <<"a", ".", "e">>, global |-> FALSE]
          [] id = "/^a.e$/" -> [source |-> <<"^", "a", ".", "e", "$">>, global |-> FALSE]
          [] id = "/a.e/g"  -> [source |-> <<"a", ".", "e">>, global |-> TRUE]]

Finished(props, li, outcome, selected, calls, results) ==
    [props |-> props, li |-> li, outcome |-> outcome, selected |-> selected,
     calls |-> calls, results |-> results]

\* forEachTopic.call(ctx, topics, fn) on the hash `props` that `this._pubsub`
\* resolves to (present is FALSE when it resolves to nothing)
ForEachTopic(present, props, lis, ctx, topics, kind, arg) ==
    IF ~present THEN Finished(props, 0, "return", <<>>, <<>>, <<>>)
    ELSE IF topics.type = "regexp"
    THEN TopicLoop(Finished(props, lis[topics.id], "return", <<>>, <<>>, <<>>),
                   ctx, RegExpObjects[topics.id], ForInKeys(props), 1, kind, arg)
    ELSE IF topics.type # "string"
    THEN Finished(props, 0, "TypeError", <<>>, <<>>, <<>>)
    ELSE LET source == WildcardSource(topics.chars) IN
         IF ParsePattern(source).error
         THEN Finished(props, 0, "SyntaxError", <<>>, <<>>, <<>>)
         ELSE TopicLoop(Finished(props, 0, "return", <<>>, <<>>, <<>>),
                        ctx, NewRegExp(source), ForInKeys(props), 1, kind, arg)

\* unsubscribe.call(ctx, topics, subscriber) and publish.call(ctx, topics, message):
\* the registries and the lastIndex of the caller's RegExp objects afterwards,
\* and what the call did
Call(ps, lis, ctx, topics, kind, arg) ==
    LET holder == Holder(ps, ctx)
        props  == IF holder = NoObject THEN <<>> ELSE ps[holder].props
    IN  With(ForEachTopic(holder # NoObject, props, lis, ctx, topics, kind, arg),
             LAMBDA done :
        [pubsub    |-> IF holder = NoObject THEN ps
                       ELSE [ps EXCEPT ![holder].props = done.props],
         lastIndex |-> IF holder # NoObject /\ topics.type = "regexp"
                       THEN [lis EXCEPT ![topics.id] = done.li]
                       ELSE lis,
         outcome   |-> done.outcome,
         selected  |-> done.selected,
         calls     |-> done.calls,
         results   |-> IF done.outcome = "return" THEN done.results ELSE <<>>])

-----------------------------------------------------------------------------
(* The state machine: one action per public method.                        *)

Record(op, ctx, topics, arg, outcome, selected, calls, results) ==
    [op |-> op, ctx |-> ctx, topics |-> topics, arg |-> arg, outcome |-> outcome,
     selected |-> selected, calls |-> calls, results |-> results]

Init ==
    /\ pubsub = [ctx \in Contexts |-> NoRegistry]
    /\ lastIndex = [id \in DOMAIN RegExpObjects |-> 0]
    /\ last = Record("none", "pubsubstar", Undefined, Undefined, "return", <<>>, <<>>, <<>>)

Subscribe(ctx, topic, subscriber) ==
    \E r \in {SubscribeCall(pubsub, ctx, topic, subscriber)} :
    /\ pubsub' = r.pubsub
    /\ UNCHANGED lastIndex
    /\ last' = Record("subscribe", ctx, topic, subscriber, r.outcome, <<>>, <<>>, <<>>)

Unsubscribe(ctx, topics, subscriber) ==
    \E r \in {Call(pubsub, lastIndex, ctx, topics, "unsubscribe", subscriber)} :
    /\ pubsub' = r.pubsub
    /\ lastIndex' = r.lastIndex
    /\ last' = Record("unsubscribe", ctx, topics, subscriber, r.outcome, r.selected,
                      <<>>, <<>>)

Publish(ctx, topics, message) ==
    \E r \in {Call(pubsub, lastIndex, ctx, topics, "publish", message)} :
    /\ pubsub' = r.pubsub
    /\ lastIndex' = r.lastIndex
    /\ last' = Record("publish", ctx, topics, message, r.outcome, r.selected,
                      r.calls, r.results)

\* Object.assign(target, source): mixing the methods of source into target
Assign(target, source) ==
    /\ target # source
    /\ pubsub' = AssignCall(pubsub, target, source)
    /\ UNCHANGED lastIndex
    /\ last' = Record("assign", target, Undefined, Obj(source), "return", <<>>, <<>>, <<>>)

\* the registry of ctx holds, or would hold after subscribing to topic, at most
\* `most` keys
Within(most, ctx, topic) ==
    LET holder == Holder(pubsub, ctx)
        keys   == IF holder = NoObject THEN {} ELSE Keys(pubsub[holder].props)
    IN  topic.type = "string" => Cardinality(keys \cup {topic.chars}) <= most

-----------------------------------------------------------------------------
(* Specification Spec: the three methods called on the module object, on   *)
(* two topics and three subscribers.                                       *)

MainTopics == {<<"a">>, <<"a", "b">>}

MainSubscribers == {Fn("seventeen"), Fn("fiftyThree"), Fn("spy1")}

MainSpecifications == {Str(<<STAR>>), Str(<<"a">>), Str(<<"a", "b">>), Num(3)}

MainMessages == {Str(<<"y", "a", "d", "a">>)}

DoSubscribe ==
    \E topic \in {Str(t) : t \in MainTopics} \cup {Num(3)},
       subscriber \in MainSubscribers \cup {Num(3)} :
        Subscribe("pubsubstar", topic, subscriber)

DoUnsubscribe ==
    \E topics \in MainSpecifications, subscriber \in MainSubscribers \cup {Undefined} :
        Unsubscribe("pubsubstar", topics, subscriber)

DoPublish ==
    \E topics \in MainSpecifications, message \in MainMessages :
        Publish("pubsubstar", topics, message)

Next == DoSubscribe \/ DoUnsubscribe \/ DoPublish

Spec == Init /\ [][Next]_vars

-----------------------------------------------------------------------------
(* Specification SpecOrder: topics that are array indices and topics that  *)
(* are not, subscribed in every order, and published to.                   *)

OrderTopics == {<<"a">>, <<"b">>, <<"2">>, <<"1", "0">>}

OrderSubscribers == {Fn("seventeen"), Fn("fiftyThree")}

OrderSpecifications == {Str(<<STAR>>), Str(<<"1", STAR>>)}

OrderSubscribe ==
    \E topic \in {Str(t) : t \in OrderTopics}, subscriber \in OrderSubscribers :
        /\ Within(MaxKeys, "pubsubstar", topic)
        /\ Subscribe("pubsubstar", topic, subscriber)

OrderUnsubscribe ==
    \E topics \in OrderSpecifications : Unsubscribe("pubsubstar", topics, Undefined)

OrderPublish ==
    \E topics \in OrderSpecifications : Publish("pubsubstar", topics, Undefined)

NextOrder == OrderSubscribe \/ OrderUnsubscribe \/ OrderPublish

SpecOrder == Init /\ [][NextOrder]_vars

-----------------------------------------------------------------------------
(* Specification SpecScenario: the topics and specifications of the test   *)
(* suite, each topic with a subscriber of its own.                         *)

abe == <<"a", "b", "e">>

ape == <<"a", "p", "e">>

babe == <<"b", "a", "b", "e">>

bike == <<"b", "i", "k", "e">>

ScenarioTopics == {abe, ape, babe, bike}

\* the subscriber the scenario binds to each topic
SubscriberOf(topic) ==
    CASE topic = abe  -> Fn("onAbe")
      [] topic = ape  -> Fn("onApe")
      [] topic = babe -> Fn("onBabe")
      [] topic = bike -> Fn("onBike")

ScenarioSpecifications ==
    {Str(<<STAR>>), Str(<<"a", STAR, "e">>), Str(<<"a", STAR>>),
     Re("/a.e/"), Re("/^a.e$/"), Re("/a.e/g")}

ScenarioSubscribe ==
    \E topic \in ScenarioTopics :
        Subscribe("pubsubstar", Str(topic), SubscriberOf(topic))

ScenarioUnsubscribe ==
    \E topics \in ScenarioSpecifications : Unsubscribe("pubsubstar", topics, Undefined)

ScenarioPublish ==
    \E topics \in ScenarioSpecifications : Publish("pubsubstar", topics, Num(3))

NextScenario == ScenarioSubscribe \/ ScenarioUnsubscribe \/ ScenarioPublish

SpecScenario == Init /\ [][NextScenario]_vars

-----------------------------------------------------------------------------
(* Specification SpecMatch: the matching of one string specification       *)
(* against one topic key, for every pair of a bounded set.  The registry   *)
(* starts with the key subscribed to; one call is made.                    *)

MatchAlphabet == {"a", STAR, BACKSLASH, ".", NEWLINE}

\* specifications made of letters and escaped asterisks only
EscapedSpecifications ==
    {Concat(tokens) :
        tokens \in StringsUpTo({<<"a">>, <<"z">>, <<BACKSLASH, STAR>>}, MaxTokens)}

\* specifications and keys with the RegExp quantifier `+`
QuantifierStrings == StringsUpTo({"a", "+", STAR}, MaxKeyLen)

\* the pairs <<specification, key>> that are drawn
MatchInputs ==
    (StringsUpTo(MatchAlphabet, MaxSpecLen) \X StringsUpTo(MatchAlphabet, MaxKeyLen))
        \cup (EscapedSpecifications
                 \X (StringsUpTo({"a", "z", STAR}, MaxTokens) \cup {<<"a", "m", "z">>}))
        \cup (QuantifierStrings \X QuantifierStrings)

MatchKeys == {input[2] : input \in MatchInputs}

MatchSubscriber == Fn("seventeen")

InitMatch ==
    /\ \E key \in MatchKeys :
           pubsub = SubscribeCall([ctx \in Contexts |-> NoRegistry], "pubsubstar",
                                  Str(key), MatchSubscriber).pubsub
    /\ lastIndex = [id \in DOMAIN RegExpObjects |-> 0]
    /\ last = Record("none", "pubsubstar", Undefined, Undefined, "return", <<>>, <<>>, <<>>)

\* the specifications drawn with the key that is in the registry
SpecificationsFor(ps) ==
    {input[1] : input \in {i \in MatchInputs : i[2] \in Keys(ps["pubsubstar"].props)}}

MatchPublish ==
    /\ last.op = "none"
    /\ \E chars \in SpecificationsFor(pubsub) :
           Publish("pubsubstar", Str(chars), Num(3))

MatchUnsubscribe ==
    /\ last.op = "none"
    /\ \E chars \in SpecificationsFor(pubsub), subscriber \in {MatchSubscriber, Undefined} :
           Unsubscribe("pubsubstar", Str(chars), subscriber)

NextMatch == MatchPublish \/ MatchUnsubscribe

SpecMatch == InitMatch /\ [][NextMatch]_vars

-----------------------------------------------------------------------------
(* Specification SpecThrow: two topics and three subscribers, one of which *)
(* throws whenever it is called.                                           *)

ThrowTopics == {<<"a">>, <<"a", "b">>}

ThrowSubscribers == {Fn("seventeen"), Fn("thrower"), Fn("fiftyThree")}

ThrowSpecifications == {Str(<<STAR>>), Str(<<"a">>)}

ThrowSubscribe ==
    \E topic \in ThrowTopics, subscriber \in ThrowSubscribers :
        Subscribe("pubsubstar", Str(topic), subscriber)

ThrowUnsubscribe ==
    \E topics \in ThrowSpecifications : Unsubscribe("pubsubstar", topics, Undefined)

ThrowPublish ==
    \E topics \in ThrowSpecifications : Publish("pubsubstar", topics, Num(3))

NextThrow == ThrowSubscribe \/ ThrowUnsubscribe \/ ThrowPublish

SpecThrow == Init /\ [][NextThrow]_vars

-----------------------------------------------------------------------------
(* Specification SpecContexts: the methods called on the module object, on *)
(* an object they were mixed into and on an object that inherits from it.  *)

ContextTopics == {<<"a">>}

ContextSubscribers == {Fn("seventeen"), Fn("fiftyThree")}

ContextSubscribe ==
    \E ctx \in Contexts, topic \in ContextTopics, subscriber \in ContextSubscribers :
        Subscribe(ctx, Str(topic), subscriber)

ContextUnsubscribe ==
    \E ctx \in Contexts, topic \in ContextTopics,
       subscriber \in ContextSubscribers \cup {Undefined} :
        Unsubscribe(ctx, Str(topic), subscriber)

ContextPublish ==
    \E ctx \in Contexts, topic \in ContextTopics : Publish(ctx, Str(topic), Num(3))

ContextAssign ==
    \E target \in Contexts, source \in Contexts : Assign(target, source)

NextContexts == ContextSubscribe \/ ContextUnsubscribe \/ ContextPublish \/ ContextAssign

SpecContexts == Init /\ [][NextContexts]_vars

-----------------------------------------------------------------------------
(* Specification SpecReentrant: a subscriber that unsubscribes itself from *)
(* the topic it is handed, which every publish passes as the message.      *)

ReentrantTopics == {<<"a">>, <<"a", "b">>}

ReentrantSubscribers == {Fn("once"), Fn("seventeen"), Fn("fiftyThree")}

ReentrantSubscribe ==
    \E topic \in ReentrantTopics, subscriber \in ReentrantSubscribers :
        Subscribe("pubsubstar", Str(topic), subscriber)

ReentrantUnsubscribe ==
    \E topic \in ReentrantTopics : Unsubscribe("pubsubstar", Str(topic), Undefined)

ReentrantPublish ==
    \E topic \in ReentrantTopics : Publish("pubsubstar", Str(topic), Str(topic))

NextReentrant == ReentrantSubscribe \/ ReentrantUnsubscribe \/ ReentrantPublish

SpecReentrant == Init /\ [][NextReentrant]_vars

-----------------------------------------------------------------------------
(* Properties.                                                             *)

\* the hash that `this._pubsub` resolves to on the module object
Registry == pubsub["pubsubstar"].props

\* the topic matcher applied to one key: the RegExp a string specification is
\* compiled to, tested against the key
Selects(topics, key) ==
    /\ topics.type = "string"
    /\ RegExpTest(NewRegExp(WildcardSource(topics.chars)), 0, key).result

Occurrences(list, x) == Cardinality({i \in 1..Len(list) : list[i] = x})

\* the list without x, the other elements in their order
Without(list, x) == SelectSeq(list, LAMBDA y : y # x)

Returned(op) == last.op = op /\ last.outcome = "return"

\* C1: whatever calls were made, no subscriber appears twice in the list of a
\* topic, and a publish that selects one topic calls each subscriber of that
\* topic exactly once.
C1_NoDuplicateSubscriber ==
    /\ \A ctx \in Contexts : \A i \in 1..Len(pubsub[ctx].props) :
           \A subscriber \in MainSubscribers :
               Occurrences(pubsub[ctx].props[i].subscribers, subscriber) <= 1
    /\ (Returned("publish") /\ Len(last.selected) = 1) =>
           \A subscriber \in MainSubscribers :
               Occurrences([i \in 1..Len(last.calls) |-> last.calls[i].fn], subscriber)
                   = IF IndexOf(Lookup(Registry, last.selected[1]), subscriber) > 0
                     THEN 1 ELSE 0

\* a subscribe of a subscriber that was bound already (it is not the last of the
\* list, so this call did not push it)
C1_Witness ==
    /\ Returned("subscribe")
    /\ last.topics = Str(<<"a">>)
    /\ last.arg = Fn("seventeen")
    /\ Lookup(Registry, <<"a">>) = <<Fn("seventeen"), Fn("spy1")>>

\* C2: a publish that returns has called, once for each selected topic it is
\* bound to and never for another topic, every subscriber, with the context as
\* receiver and the message as argument; the results are the values returned,
\* call by call, a promise as it was returned.
C2_PublishInvokesEachOnce ==
    Returned("publish") =>
        /\ \A subscriber \in MainSubscribers :
               Occurrences([i \in 1..Len(last.calls) |-> last.calls[i].fn], subscriber)
                   = Cardinality({i \in 1..Len(Registry) :
                                     /\ Selects(last.topics, Registry[i].topic)
                                     /\ IndexOf(Registry[i].subscribers, subscriber) > 0})
        /\ \A i \in 1..Len(last.calls) :
               /\ last.calls[i].this = last.ctx
               /\ last.calls[i].message = last.arg
        /\ Len(last.results) = Len(last.calls)
        /\ \A i \in 1..Len(last.calls) :
               last.results[i] =
                   CASE last.calls[i].fn = Fn("seventeen")  -> Num(17)
                     [] last.calls[i].fn = Fn("fiftyThree") -> Num(53)
                     [] last.calls[i].fn = Fn("spy1")       -> PromiseOf(Num(17))

\* publish('a') with two subscribers on `a`, one of them async, and another
\* subscriber on `ab`
C2_Witness ==
    /\ Returned("publish")
    /\ last.topics = Str(<<"a">>)
    /\ Keys(Registry) = {<<"a">>, <<"a", "b">>}
    /\ Lookup(Registry, <<"a">>) = <<Fn("spy1"), Fn("seventeen")>>
    /\ Lookup(Registry, <<"a", "b">>) = <<Fn("fiftyThree")>>
    /\ last.results = <<PromiseOf(Num(17)), Num(17)>>

\* C10: unsubscribe with a subscriber raises no error for a string
\* specification, keeps every key, takes the subscriber out of the list of every
\* selected topic and leaves every list otherwise as it was.
C10_UnsubscribeRemovesOnlySubscriber ==
    [][(last'.op = "unsubscribe" /\ last'.arg.type = "function") =>
           /\ last'.topics.type = "string" => last'.outcome = "return"
           /\ pubsub'["pubsubstar"].defined = pubsub["pubsubstar"].defined
           /\ Len(Registry') = Len(Registry)
           /\ \A i \in 1..Len(Registry) :
                  /\ Registry'[i].topic = Registry[i].topic
                  /\ Registry'[i].subscribers =
                         IF Selects(last'.topics, Registry[i].topic)
                         THEN Without(Registry[i].subscribers, last'.arg)
                         ELSE Registry[i].subscribers]_vars

\* unsubscribe('*', fiftyThree) has visited both topics and left the other
\* subscribers of `a` in their order
C10_Witness ==
    /\ Returned("unsubscribe")
    /\ last.topics = Str(<<STAR>>)
    /\ last.arg = Fn("fiftyThree")
    /\ last.selected = <<<<"a">>, <<"a", "b">>>>
    /\ Lookup(Registry, <<"a">>) = <<Fn("spy1"), Fn("seventeen")>>
    /\ Lookup(Registry, <<"a", "b">>) = <<>>

\* the functions called by the last publish, in the order of the calls
Called == [i \in 1..Len(last.calls) |-> last.calls[i].fn]

\* the keys of the registry in the order in which they were inserted
Inserted == [i \in 1..Len(Registry) |-> Registry[i].topic]

\* the lists of the keys of `order` that the specification selects, one after
\* the other
SubscribersAlong(order) ==
    Concat([i \in 1..Len(order) |->
                IF Selects(last.topics, order[i]) THEN Lookup(Registry, order[i])
                ELSE <<>>])

\* key k is enumerated before key l: array indices first, ascending, then the
\* other keys as inserted
EnumeratedBefore(k, l) ==
    IF IsArrayIndex(k) /\ IsArrayIndex(l) THEN NumericLess(k, l)
    ELSE IF IsArrayIndex(k) \/ IsArrayIndex(l) THEN IsArrayIndex(k)
    ELSE KeyIndex(Registry, k) < KeyIndex(Registry, l)

\* the values the subscribers of SpecOrder return
ValueOf(fn) == IF fn = Fn("seventeen") THEN Num(17) ELSE Num(53)

\* C3 as stated: publish calls the subscribers topic by topic in the order in
\* which the keys were inserted, and within a topic in subscription order.
C3_InsertionOrder ==
    Returned("publish") =>
        /\ Called = SubscribersAlong(Inserted)
        /\ last.results = [i \in 1..Len(Called) |-> ValueOf(Called[i])]

\* C3 as amended: the selected keys are visited array indices first, in
\* ascending numeric order, then the other keys in insertion order; the calls are
\* the subscribers of the visited keys, list after list in subscription order.
C3_EnumerationOrder ==
    Returned("publish") =>
        /\ {last.selected[i] : i \in 1..Len(last.selected)}
               = {k \in Keys(Registry) : Selects(last.topics, k)}
        /\ \A i, j \in 1..Len(last.selected) :
               i < j => EnumeratedBefore(last.selected[i], last.selected[j])
        /\ Called = SubscribersAlong(last.selected)
        /\ last.results = [i \in 1..Len(Called) |-> ValueOf(Called[i])]

\* publish('*') on keys inserted as a, 10, 2 has visited 2, 10, a, one of them
\* with two subscribers
C3_Witness ==
    /\ Returned("publish")
    /\ last.topics = Str(<<STAR>>)
    /\ Inserted = <<<<"a">>, <<"1", "0">>, <<"2">>>>
    /\ last.selected = <<<<"2">>, <<"1", "0">>, <<"a">>>>
    /\ Lookup(Registry, <<"a">>) = <<Fn("fiftyThree"), Fn("seventeen")>>
    /\ Len(last.calls) >= 4

\* the elements of a sequence
Range(seq) == {seq[i] : i \in 1..Len(seq)}

\* the last call was a publish or an unsubscribe with a string specification
MatchedString(record) ==
    record.op \in {"publish", "unsubscribe"} /\ record.topics.type = "string"

\* C4 as stated: a string specification without `*` selects a key exactly when
\* the key is the specification, character for character, and raises no error.
C4_LiteralSelectsIdentical ==
    [][(MatchedString(last') /\ STAR \notin Range(last'.topics.chars)) =>
           /\ last'.outcome = "return"
           /\ \A i \in 1..Len(Registry) :
                  Registry[i].topic \in Range(last'.selected)
                      <=> Registry[i].topic = last'.topics.chars]_vars

\* the key from index j on conforms to the specification from index i on, every
\* `*` standing for any run of characters and every other character for itself
RECURSIVE ConformsFrom(_, _, _, _)
ConformsFrom(spec, i, key, j) ==
    IF i > Len(spec) THEN j > Len(key)
    ELSE IF spec[i] = STAR
         THEN \E n \in j..(Len(key) + 1) : ConformsFrom(spec, i + 1, key, n)
         ELSE j <= Len(key) /\ key[j] = spec[i] /\ ConformsFrom(spec, i + 1, key, j + 1)

\* C5 as stated, for the specifications without a backslash (every `*` of
\* theirs is unescaped): a specification with a `*` selects a key exactly when
\* the whole key conforms to it.
C5_WildcardSelectsConforming ==
    [][(/\ MatchedString(last')
        /\ STAR \in Range(last'.topics.chars)
        /\ BACKSLASH \notin Range(last'.topics.chars)) =>
           \A i \in 1..Len(Registry) :
               Registry[i].topic \in Range(last'.selected)
                   <=> ConformsFrom(last'.topics.chars, 1, Registry[i].topic, 1)]_vars

\* the scenario of C6: abe, ape and babe are bound and 'a*e' was published
PublishedAStarE ==
    /\ Returned("publish")
    /\ last.topics = Str(<<"a", STAR, "e">>)
    /\ {abe, ape, babe} \subseteq Keys(Registry)

\* C6 as stated: with abe, ape and babe bound, publish('a*e') calls the
\* subscriber of abe and no other.
C6_OnlyAbe ==
    PublishedAStarE => Called = <<SubscriberOf(abe)>>

\* C6 as amended: with abe, ape and babe bound, publish('a*e') calls the
\* subscribers of abe and of ape, once each, and not the subscriber of babe.
C6_AbeAndApe ==
    PublishedAStarE =>
        /\ Range(Called) = {SubscriberOf(abe), SubscriberOf(ape)}
        /\ Len(Called) = 2
        /\ Range(last.selected) = {abe, ape}

\* publish('a*e', 3) on abe, ape and babe, subscribed in this order
C6_Witness ==
    /\ PublishedAStarE
    /\ Inserted = <<abe, ape, babe>>
    /\ Called = <<SubscriberOf(abe), SubscriberOf(ape)>>
    /\ last.arg = Num(3)

\* C7 as stated: '*' selects every key of the registry; publish('*') calls
\* every subscriber of every topic and unsubscribe('*') leaves no subscription.
C7_StarSelectsEveryKey ==
    [][(MatchedString(last') /\ last'.topics.chars = <<STAR>>) =>
           /\ last'.outcome = "return"
           /\ Range(last'.selected) = Keys(Registry)
           /\ last'.op = "publish" =>
                  Len(last'.calls) = Len(Concat([i \in 1..Len(Registry) |->
                                                    Registry[i].subscribers]))
           /\ (last'.op = "unsubscribe" /\ last'.arg = Undefined) =>
                  Registry' = <<>>]_vars

\* the specification is made of letters and of escaped asterisks, at least one
EscapesEveryStar(spec) ==
    /\ \E i \in 1..Len(spec) : spec[i] = STAR
    /\ \A i \in 1..Len(spec) :
           \/ spec[i] \in {"a", "m", "z"}
           \/ spec[i] = BACKSLASH /\ i < Len(spec) /\ spec[i + 1] = STAR
           \/ spec[i] = STAR /\ i > 1 /\ spec[i - 1] = BACKSLASH

\* the specification without its backslashes
Unescaped(spec) == SelectSeq(spec, LAMBDA c : c # BACKSLASH)

\* C8: a specification of letters and escaped asterisks selects a key exactly
\* when the key is the specification with every `\*` read as `*`; no asterisk
\* of it stands for anything else.
C8_EscapedStarIsLiteral ==
    [][(MatchedString(last') /\ EscapesEveryStar(last'.topics.chars)) =>
           /\ last'.outcome = "return"
           /\ \A i \in 1..Len(Registry) :
                  Registry[i].topic \in Range(last'.selected)
                      <=> Registry[i].topic = Unescaped(last'.topics.chars)]_vars

\* publish('a\\*z', 3) has called the subscriber of the key a*z
C8_Witness ==
    /\ Returned("publish")
    /\ last.topics = Str(<<"a", BACKSLASH, STAR, "z">>)
    /\ last.selected = <<<<"a", STAR, "z">>>>
    /\ last.results = <<Num(17)>>

\* the key holds an `a` and an `e` with one character other than a line
\* terminator between them
ContainsAnyBetweenAE(key) ==
    \E i \in 1..(Len(key) - 2) :
        key[i] = "a" /\ key[i + 1] \notin {"\n", "\r"} /\ key[i + 2] = "e"

\* the pattern object, read on its own, matches somewhere in the key
ContainsMatch(id, key) ==
    IF id = "/^a.e$/" THEN Len(key) = 3 /\ ContainsAnyBetweenAE(key)
    ELSE ContainsAnyBetweenAE(key)

\* C9 as stated: a RegExp specification selects every key that contains a
\* match of the pattern and no other key, so that publish(/a.e/) on abe, ape,
\* bike and babe calls the subscribers of abe, ape and babe.
C9_PatternSelectsContaining ==
    (Returned("publish") /\ last.topics.type = "regexp") =>
        /\ Range(last.selected)
               = {key \in Keys(Registry) : ContainsMatch(last.topics.id, key)}
        /\ Range(Called)
               = {SubscriberOf(key) :
                     key \in {k \in Keys(Registry) : ContainsMatch(last.topics.id, k)}}
        /\ Len(Called) = Cardinality(Range(Called))

\* the properties whose key the specification does not select
Unselected(props, topics) == SelectSeq(props, LAMBDA p : ~Selects(topics, p.topic))

\* C11: unsubscribe without a subscriber deletes the entry of every key the
\* specification selects and leaves every other entry, list and order as it
\* was; a publish to the same specification right after it calls no subscriber.
C11_UnsubscribeAllDeletesSelected ==
    [][/\ (last'.op = "unsubscribe" /\ last'.arg = Undefined) =>
              Registry' = Unselected(Registry, last'.topics)
       /\ (/\ last.op = "unsubscribe" /\ last.arg = Undefined
           /\ last'.op = "publish" /\ last'.topics = last.topics
           /\ last'.topics.type = "string") =>
              last'.outcome = "return" /\ last'.calls = <<>> /\ last'.results = <<>>]_vars

\* unsubscribe('a') has deleted the key `a` with its subscribers and left `ab`
\* with its two subscribers
C11_Witness ==
    /\ Returned("unsubscribe")
    /\ last.topics = Str(<<"a">>)
    /\ last.arg = Undefined
    /\ last.selected = <<<<"a">>>>
    /\ Keys(Registry) = {<<"a", "b">>}
    /\ Lookup(Registry, <<"a", "b">>) = <<Fn("seventeen"), Fn("fiftyThree")>>

\* C12: a key leaves the registry only in an unsubscribe without a subscriber
\* whose specification selects it; a selected key whose list was emptied one
\* subscriber at a time is still there, and a publish to it returns nothing.
C12_KeyLeavesOnlyByUnsubscribeAll ==
    [][/\ \A key \in Keys(Registry) \ Keys(Registry') :
              /\ last'.op = "unsubscribe"
              /\ last'.arg = Undefined
              /\ Selects(last'.topics, key)
       /\ (/\ last'.op = "unsubscribe" /\ last'.arg.type = "function"
           /\ \E i \in 1..Len(Registry) :
                  /\ Selects(last'.topics, Registry[i].topic)
                  /\ Registry[i].subscribers = <<last'.arg>>) =>
              \E i \in 1..Len(Registry') :
                  /\ Selects(last'.topics, Registry'[i].topic)
                  /\ Registry'[i].subscribers = <<>>
       /\ (/\ last'.op = "publish" /\ last'.topics.type = "string"
           /\ \A i \in 1..Len(Registry) :
                  Selects(last'.topics, Registry[i].topic) =>
                      Registry[i].subscribers = <<>>) =>
              last'.outcome = "return" /\ last'.results = <<>>]_vars

\* publish('a') has visited the key `a`, whose list is empty, and returned
\* nothing
C12_Witness ==
    /\ Returned("publish")
    /\ last.topics = Str(<<"a">>)
    /\ last.selected = <<<<"a">>>>
    /\ Lookup(Registry, <<"a">>) = <<>>
    /\ last.results = <<>>

\* C13: subscribe throws a TypeError exactly when the topic is not a string or
\* the subscriber is not a function, and then leaves every registry as it was,
\* an absent registry absent.
C13_SubscribeTypeErrorBeforeMutation ==
    [][last'.op = "subscribe" =>
           /\ last'.outcome = "TypeError"
                  <=> (last'.topics.type # "string" \/ last'.arg.type # "function")
           /\ last'.outcome \in {"TypeError", "return"}
           /\ last'.outcome = "TypeError" => pubsub' = pubsub]_vars

\* subscribe('a', 3) has thrown on a context that has no registry
C13_Witness ==
    /\ last.op = "subscribe"
    /\ last.topics = Str(<<"a">>)
    /\ last.arg = Num(3)
    /\ last.outcome = "TypeError"
    /\ ~pubsub["pubsubstar"].defined

\* C14 as stated: publish and unsubscribe throw a TypeError whenever the
\* specification is neither a string nor a RegExp, whatever the state of the
\* context, and then leave the registry as it was and call no subscriber.
C14_TypeErrorInEveryState ==
    [][(/\ last'.op \in {"publish", "unsubscribe"}
        /\ last'.topics.type \notin {"string", "regexp"}) =>
           /\ last'.outcome = "TypeError"
           /\ last'.calls = <<>>
           /\ pubsub' = pubsub]_vars

\* C15 as stated, for string specifications on a registry none of whose keys
\* is selected: publish and unsubscribe raise no error, call no subscriber,
\* return nothing and leave the registry as it was.
C15_NoMatchIsSilent ==
    [][(MatchedString(last') /\ last'.selected = <<>>) =>
           /\ last'.outcome = "return"
           /\ last'.calls = <<>>
           /\ last'.results = <<>>
           /\ pubsub' = pubsub]_vars

\* C20 as stated: whatever characters a string specification is made of,
\* publish and unsubscribe on a populated registry whose subscriber does not
\* throw complete without an error.
C20_StringNeverRaises ==
    [][(MatchedString(last') /\ Registry # <<>>) =>
           last'.outcome = "return"]_vars

\* the subscribers a publish to `topics` is due to call on the hash `props`,
\* key after key and list after list
Due(props, topics) ==
    Concat([i \in 1..Len(props) |->
                IF Selects(topics, props[i].topic) THEN props[i].subscribers ELSE <<>>])

\* C16: when a subscriber throws during publish, the exception leaves publish:
\* the subscribers due before it and the thrower itself have been called, once
\* for each binding, no later subscriber of that topic or of a later topic has,
\* nothing is returned and the registry is as it was.
C16_ThrowStopsDispatch ==
    [][(/\ last'.op = "publish"
        /\ IndexOf(Due(Registry, last'.topics), Fn("thrower")) > 0) =>
           /\ last'.outcome = "thrown"
           /\ [i \in 1..Len(last'.calls) |-> last'.calls[i].fn]
                  = SubSeq(Due(Registry, last'.topics), 1,
                           IndexOf(Due(Registry, last'.topics), Fn("thrower")))
           /\ last'.results = <<>>
           /\ pubsub' = pubsub]_vars

\* publish('*') has called seventeen and the thrower of topic `a` and neither
\* fiftyThree after them nor the subscriber of `ab`
C16_Witness ==
    /\ last.op = "publish"
    /\ last.outcome = "thrown"
    /\ last.topics = Str(<<STAR>>)
    /\ Inserted = <<<<"a">>, <<"a", "b">>>>
    /\ Lookup(Registry, <<"a">>) = <<Fn("seventeen"), Fn("thrower"), Fn("fiftyThree")>>
    /\ Lookup(Registry, <<"a", "b">>) = <<Fn("fiftyThree")>>
    /\ Called = <<Fn("seventeen"), Fn("thrower")>>

\* the hash a publish on ctx dispatches on: the topics and subscribers it can
\* invoke
Visible(ps, ctx) ==
    IF Holder(ps, ctx) = NoObject THEN <<>> ELSE ps[Holder(ps, ctx)].props

\* C17 as stated: a subscribe or an unsubscribe on one context changes nothing
\* of what a publish on another context invokes, and a context that has
\* subscribed has a registry of its own.
C17_ContextsShareNothing ==
    [][/\ last'.op \in {"subscribe", "unsubscribe"} =>
              \A other \in Contexts \ {last'.ctx} :
                  Visible(pubsub', other) = Visible(pubsub, other)
       /\ (last'.op = "subscribe" /\ last'.outcome = "return") =>
              pubsub'[last'.ctx].defined]_vars

\* C18: a registry is an own property of the context that subscribed and is
\* never enumerable; Object.assign from a context copies no registry; a publish
\* on the target right after it calls the subscribers of the target's own
\* registry only, none if it has none; and a subscribe on a target without a
\* registry gives it one of its own and leaves every other registry as it was.
\* (Targets that inherit from a context are C17's subject.)
C18_RegistryNotEnumerable ==
    [][/\ \A ctx \in Contexts :
              pubsub'[ctx].defined =>
                  ~pubsub'[ctx].enumerable /\ pubsub'[ctx].hash = ctx
       /\ last'.op = "assign" => pubsub' = pubsub
       /\ (/\ last.op = "assign" /\ Proto(last.ctx) = NoObject
           /\ last'.op = "publish" /\ last'.ctx = last.ctx) =>
              [i \in 1..Len(last'.calls) |-> last'.calls[i].fn]
                  = Due(pubsub[last.ctx].props, last'.topics)
       /\ (/\ last'.op = "subscribe" /\ last'.outcome = "return"
           /\ ~pubsub[last'.ctx].defined /\ Proto(last'.ctx) = NoObject) =>
              /\ pubsub'[last'.ctx].defined
              /\ \A other \in Contexts \ {last'.ctx} : pubsub'[other] = pubsub[other]]_vars

\* Object.assign(myObj, pubsubstar) after two subscribers were bound on the
\* module object: myObj has no registry
C18_Witness ==
    /\ last.op = "assign"
    /\ last.ctx = "myObj"
    /\ last.arg = Obj("pubsubstar")
    /\ Keys(pubsub["pubsubstar"].props) = {<<"a">>}
    /\ Lookup(pubsub["pubsubstar"].props, <<"a">>) = <<Fn("seventeen"), Fn("fiftyThree")>>
    /\ ~pubsub["myObj"].defined

\* C19 as stated: a RegExp specification selects, in a publish as in an
\* unsubscribe, exactly the keys the pattern accepts, whichever other keys the
\* registry holds and whatever was called before with the same RegExp object; a
\* publish repeated with the same object selects the same keys again.
C19_PatternTestsKeysIndependently ==
    [][/\ (last'.op \in {"publish", "unsubscribe"} /\ last'.topics.type = "regexp") =>
              Range(last'.selected)
                  = {key \in Keys(Registry) : ContainsMatch(last'.topics.id, key)}
       /\ (/\ last.op = "publish" /\ last'.op = "publish"
           /\ last'.topics.type = "regexp" /\ last'.topics = last.topics) =>
              last'.selected = last.selected]_vars

\* C21 as stated: when `once`, bound to the topic that is published, takes
\* itself off that topic while it is called, every other subscriber bound to
\* the topic when publish began is called exactly once, and publish returns one
\* result for each subscriber bound at the start.
C21_SelfUnsubscribeSkipsNobody ==
    [][(/\ last'.op = "publish"
        /\ last'.topics.type = "string"
        /\ last'.arg = last'.topics
        /\ last'.topics.chars \in Keys(Registry)) =>
           (IndexOf(Lookup(Registry, last'.topics.chars), Fn("once")) > 0 =>
                /\ last'.outcome = "return"
                /\ \A subscriber \in ReentrantSubscribers \ {Fn("once")} :
                       Occurrences([i \in 1..Len(last'.calls) |-> last'.calls[i].fn],
                                   subscriber)
                           = Occurrences(Lookup(Registry, last'.topics.chars), subscriber)
                /\ Len(last'.results) = Len(Lookup(Registry, last'.topics.chars)))]_vars

\* C22 as stated: a publish whose subscribers leave the registry alone leaves
\* every registry, key, list and order as it was, and a publish repeated with
\* the same specification calls the same subscribers in the same order.
C22_PublishIsReadOnly ==
    [][last'.op = "publish" =>
           /\ pubsub' = pubsub
           /\ (/\ last.op = "publish" /\ last'.ctx = last.ctx
               /\ last'.topics = last.topics) =>
                  [i \in 1..Len(last'.calls) |-> last'.calls[i].fn] = Called]_vars

====
